---- MODULE Spec2Model ----
(***************************************************************************)
(* CircleCalc: the circle calculator of area_calc.py.                      *)
(*                                                                         *)
(* The module is either run as a script (run_interactive_session, the      *)
(* retry loop around main) or imported, in which case                      *)
(* calculate_circle_properties and draw_circle_ascii are called directly.  *)
(*                                                                         *)
(* Numbers.  A Python float is modelled by the real number it stands for,  *)
(* written (n/d) * pi^p with n, d integers in lowest terms, or by nan or   *)
(* +-inf.  Every arithmetic step of the program is a product or a          *)
(* quotient, so this form is closed under them.  The rounding of IEEE-754  *)
(* doubles is not modelled.                                                *)
(* Strings are sequences of one-character strings.                         *)
(***************************************************************************)
EXTENDS Integers, Sequences, FiniteSets, TLC

\* Largest |radius| passed to the two functions when they are called directly.
MaxRadius == 3

----------------------------------------------------------------------------
\* Numbers

RECURSIVE GCD(_, _)
GCD(a, b) == IF b = 0 THEN a ELSE GCD(b, a % b)

Abs(i) == IF i < 0 THEN -i ELSE i

Max(a, b) == IF a >= b THEN a ELSE b

NoneVal == [k |-> "none", n |-> 0, d |-> 1, p |-> 0]
NaN == [k |-> "nan", n |-> 0, d |-> 1, p |-> 0]
Inf(s) == [k |-> "inf", n |-> s, d |-> 1, p |-> 0]

\* The number (n/d) * pi^p, in lowest terms
Fin(n, d, p) ==
    LET g == GCD(Abs(n), d)
    IN  [k |-> "fin", n |-> n \div g, d |-> d \div g, p |-> IF n = 0 THEN 0 ELSE p]

Num(i) == Fin(i, 1, 0)

pi == Fin(1, 1, 1)

Sign(v) == IF v.n > 0 THEN 1 ELSE IF v.n < 0 THEN -1 ELSE 0

\* a * b
Mul(a, b) ==
    IF a.k = "nan" \/ b.k = "nan" THEN NaN
    ELSE IF a.k = "inf" \/ b.k = "inf"
         THEN IF Sign(a) * Sign(b) = 0 THEN NaN ELSE Inf(Sign(a) * Sign(b))
         ELSE Fin(a.n * b.n, a.d * b.d, a.p + b.p)

\* a / b, for a finite non-zero b without pi
Div(a, b) ==
    IF a.k = "nan" THEN NaN
    ELSE IF a.k = "inf" THEN Inf(Sign(a) * Sign(b))
    ELSE Fin(a.n * Sign(b) * b.d, a.d * Abs(b.n), a.p)

\* a < b, for numbers without pi; any comparison with nan is False
Lt(a, b) ==
    /\ a.k # "nan" /\ b.k # "nan"
    /\ IF a.k = "inf" THEN a.n < 0 /\ ~(b.k = "inf" /\ b.n < 0)
       ELSE IF b.k = "inf" THEN b.n > 0
       ELSE a.n * b.d < b.n * a.d

\* a <= b
Le(a, b) == Lt(a, b) \/ (a.k # "nan" /\ a = b)

\* a > b
Gt(a, b) == Lt(b, a)

\* int(v): truncation toward zero; raises on nan and on inf
ToInt(v) ==
    IF v.k = "nan" THEN [exc |-> "ValueError", v |-> 0]
    ELSE IF v.k = "inf" THEN [exc |-> "OverflowError", v |-> 0]
    ELSE [exc |-> "none",
          v |-> IF v.n >= 0 THEN v.n \div v.d ELSE -((-v.n) \div v.d)]

----------------------------------------------------------------------------
\* calculate_circle_properties

NoProps ==
    [radius |-> NoneVal, angle_degrees |-> NoneVal, diameter |-> NoneVal,
     circumference |-> NoneVal, area |-> NoneVal, sector_area |-> NoneVal,
     arc_length |-> NoneVal]

\* the default value of the parameter angle_degrees
DefaultAngleDegrees == 360

SectorFraction_wrong(angle_degrees) == Div(angle_degrees, Num(180))

\* angle_degrees / 360
SectorFraction(angle_degrees) == Div(angle_degrees, Num(360))

calculate_circle_properties(radius, angle_degrees) ==
    LET diameter == Mul(Num(2), radius)
        circumference == Mul(Mul(Num(2), pi), radius)
        area == Mul(pi, Mul(radius, radius))
        sector_area == Mul(SectorFraction(angle_degrees), area)
        arc_length == Mul(SectorFraction(angle_degrees), circumference)
    IN  [radius |-> radius, angle_degrees |-> angle_degrees,
         diameter |-> diameter, circumference |-> circumference,
         area |-> area, sector_area |-> sector_area,
         arc_length |-> arc_length]

----------------------------------------------------------------------------
\* draw_circle_ascii

\* range(a, b) as a sequence
Range(a, b) == [i \in 1..Max(0, b - a) |-> a + i - 1]

\* floor of the square root of n >= 0
Isqrt(n) == CHOOSE f \in 0..n : f * f <= n /\ (f + 1) * (f + 1) > n

scale_x == 2

\* abs(sqrt((x/scale_x)**2 + y**2) - radius) <= 0.5
is_on_circle_closed(x, y, radius) ==
    LET s == x * x + scale_x * scale_x * y * y
        f == Isqrt(s)
    IN  /\ f < scale_x * radius + 1 \/ (f = scale_x * radius + 1 /\ f * f = s)
        /\ f >= scale_x * radius - 1

\* abs(sqrt((x/scale_x)**2 + y**2) - radius) < 0.5.  With
\* s = x**2 + (scale_x*y)**2 the distance is sqrt(s)/scale_x, and the test
\* is  scale_x*radius - 1 < sqrt(s) < scale_x*radius + 1  (scale_x = 2);
\* sqrt(s) is compared through its floor f and whether s is a square.
is_on_circle(x, y, radius) ==
    LET s == x * x + scale_x * scale_x * y * y
        f == Isqrt(s)
    IN  /\ f < scale_x * radius + 1
        /\ f > scale_x * radius - 1 \/ (f = scale_x * radius - 1 /\ f * f # s)

DrawLine_short(y, radius) ==
    LET xs == Range(-2 * radius, 2 * radius)
    IN  [i \in 1..Len(xs) |-> IF is_on_circle(xs[i], y, radius) THEN "*" ELSE " "]

\* the inner loop: one line of the drawing
DrawLine(y, radius) ==
    LET xs == Range(-2 * radius, 2 * radius + 1)
    IN  [i \in 1..Len(xs) |-> IF is_on_circle(xs[i], y, radius) THEN "*" ELSE " "]

RECURSIVE Join(_, _)
\* sep.join(lines)
Join(sep, lines) ==
    IF Len(lines) = 0 THEN <<>>
    ELSE IF Len(lines) = 1 THEN lines[1]
    ELSE lines[1] \o sep \o Join(sep, Tail(lines))

\* show_calculation only prints; the returned string does not depend on it
draw_circle_ascii(radius, show_calculation) ==
    LET ys == Range(-radius, radius + 1)
        result == [j \in 1..Len(ys) |-> DrawLine(ys[j], radius)]
    IN  Join(<<"\n">>, result)

----------------------------------------------------------------------------
\* Strings: str.strip, str.lower, float(str)

Digits == {"0", "1", "2", "3", "4", "5", "6", "7", "8", "9"}

DigitVal(c) ==
    CASE c = "0" -> 0 [] c = "1" -> 1 [] c = "2" -> 2 [] c = "3" -> 3
      [] c = "4" -> 4 [] c = "5" -> 5 [] c = "6" -> 6 [] c = "7" -> 7
      [] c = "8" -> 8 [] c = "9" -> 9

RECURSIVE Strip(_)
Strip(str) ==
    IF Len(str) = 0 THEN str
    ELSE IF Head(str) = " " THEN Strip(Tail(str))
    ELSE IF str[Len(str)] = " " THEN Strip(SubSeq(str, 1, Len(str) - 1))
    ELSE str

LowerChar(c) ==
    CASE c = "Y" -> "y" [] c = "E" -> "e" [] c = "S" -> "s"
      [] c = "N" -> "n" [] c = "O" -> "o" [] OTHER -> c

\* str.lower()
Lower(str) == [i \in 1..Len(str) |-> LowerChar(str[i])]

RECURSIVE DigitsValue(_)
\* the value of a sequence of decimal digits
DigitsValue(ds) ==
    IF Len(ds) = 0 THEN 0
    ELSE 10 * DigitsValue(SubSeq(ds, 1, Len(ds) - 1)) + DigitVal(ds[Len(ds)])

RECURSIVE Pow10(_)
Pow10(e) == IF e = 0 THEN 1 ELSE 10 * Pow10(e - 1)

ValueError == [k |-> "ValueError", n |-> 0, d |-> 1, p |-> 0]

\* float(str) for the lower-case strings without exponent or underscore:
\* blanks around, a sign, then nan, inf, or digits with at most one point
\* and at least one digit.  Anything else raises ValueError.
ParseFloat(str) ==
    LET t == Strip(str)
        signed == Len(t) > 0 /\ Head(t) \in {"+", "-"}
        sgn == IF signed /\ Head(t) = "-" THEN -1 ELSE 1
        body == IF signed THEN Tail(t) ELSE t
        dots == {i \in 1..Len(body) : body[i] = "."}
        dot == IF dots = {} THEN Len(body) + 1 ELSE CHOOSE i \in dots : TRUE
        intpart == SubSeq(body, 1, dot - 1)
        fracpart == SubSeq(body, dot + 1, Len(body))
        ds == intpart \o fracpart
    IN  IF body = <<"n", "a", "n">> THEN NaN
        ELSE IF body = <<"i", "n", "f">> THEN Inf(sgn)
        ELSE IF /\ Cardinality(dots) <= 1
                /\ Len(ds) >= 1
                /\ \A i \in 1..Len(ds) : ds[i] \in Digits
             THEN Fin(sgn * DigitsValue(ds), Pow10(Len(fracpart)), 0)
             ELSE ValueError

----------------------------------------------------------------------------
\* main: the pieces of one attempt

RadiusInvalid_strict(radius) == Lt(radius, Num(0))

\* if radius <= 0: raise ValueError
RadiusInvalid(radius) == Le(radius, Num(0))

\* if angle <= 0 or angle > 360: raise ValueError
AngleInvalid(angle) == Le(angle, Num(0)) \/ Gt(angle, Num(360))

AnglePromptDefault_360 == <<"3", "6", "0">>

\* the text used when the answer to the angle prompt is empty
AnglePromptDefault == <<"4", "0">>

\* input(...) or "40"
AngleText(str) == IF str = <<>> THEN AnglePromptDefault ELSE str

ExceptClause_narrow(exc) ==
    IF exc = "ValueError"
    THEN [msg |-> "Error", returns |-> TRUE, propagates |-> FALSE]
    ELSE IF exc = "KeyboardInterrupt"
    THEN [msg |-> "Operation cancelled by user.", returns |-> FALSE,
          propagates |-> FALSE]
    ELSE [msg |-> "none", returns |-> TRUE, propagates |-> TRUE]

\* the except clauses of main: what is printed, what main returns, and
\* whether the exception leaves main
ExceptClause(exc) ==
    IF exc = "ValueError"
    THEN [msg |-> "Error", returns |-> TRUE, propagates |-> FALSE]
    ELSE IF exc = "KeyboardInterrupt"
    THEN [msg |-> "Operation cancelled by user.", returns |-> FALSE,
          propagates |-> FALSE]
    ELSE [msg |-> "An unexpected error occurred", returns |-> TRUE,
          propagates |-> FALSE]

\* run_interactive_session after result = main(): the value is not looked
\* at, the separator is printed and the retry prompt follows
AfterMain(returned) == "AskRetry"

----------------------------------------------------------------------------
\* Inputs

RadiusInputs ==
    { <<"0">>, <<"-", "5">>, <<"0", ".", "5">>, <<"1">>, <<"2", ".", "5">>,
      <<"3">>, <<" ", "2", " ">>, <<"a", "b", "c">>, <<>>,
      <<"n", "a", "n">>, <<"i", "n", "f">> }

AngleInputs ==
    { <<>>, <<"0">>, <<"-", "1">>, <<"0", ".", "5">>, <<"9", "0">>,
      <<"3", "6", "0">>, <<"3", "6", "1">>, <<" ">>, <<"x">>,
      <<"n", "a", "n">>, <<"i", "n", "f">> }

RetryInputs ==
    { <<"y">>, <<"Y">>, <<"y", "e", "s">>, <<"Y", "E", "S">>, <<"n">>,
      <<"N", "o">>, <<"n", "o">>, <<>>, <<"x">>, <<"y", "e">> }

\* arguments of the direct calls
DirectRadii == {Fin(i, 2, 0) : i \in (-2 * MaxRadius)..(2 * MaxRadius)}

DirectAngles == {Num(-1), Num(0), Fin(1, 2, 0), Num(40), Num(90), Num(360), Num(361)}

----------------------------------------------------------------------------
\* State

VARIABLES
    pc,            \* where the program is: "PromptRadius", "PromptAngle",
                   \* "Visualizing" (inside visualize_circle), "AskRetry",
                   \* "Terminated", "Crashed" (uncaught exception), or
                   \* "Imported" (no session; functions called directly)
    radius,        \* main's local radius, as last assigned
    angle,         \* main's local angle, as last assigned
    properties,    \* the record last returned by calculate_circle_properties
    ascii_circle,  \* the string last returned by draw_circle_ascii
    draw_radius,   \* <<r>> for the radius last passed to draw_circle_ascii,
                   \* <<>> before any call
    result,        \* run_interactive_session's local result: <<b>>, or <<>>
    raised,        \* the exception raised by the last step, or "none"
    out,           \* the messages printed by the last step
    event          \* the last step: its name and the text that was typed

vars == <<pc, radius, angle, properties, ascii_circle, draw_radius, result,
          raised, out, event>>

Init ==
    /\ pc \in {"PromptRadius", "Imported"}
    /\ radius = NoneVal
    /\ angle = NoneVal
    /\ properties = NoProps
    /\ ascii_circle = <<>>
    /\ draw_radius = <<>>
    /\ result = <<>>
    /\ raised = "none"
    /\ out = <<>>
    /\ event = [op |-> "start", text |-> <<>>]

----------------------------------------------------------------------------
\* The session

\* an exception raised inside main's try block, after main printed `before`
MainRaises(exc, before) ==
    /\ raised' = exc
    /\ IF ExceptClause(exc).propagates
       THEN /\ pc' = "Crashed"
            /\ out' = before \o <<"Traceback">>
            /\ UNCHANGED result
       ELSE /\ pc' = AfterMain(ExceptClause(exc).returns)
            /\ out' = before \o <<ExceptClause(exc).msg, "separator">>
            /\ result' = <<ExceptClause(exc).returns>>

\* the user answers the radius prompt
InputRadius(str) ==
    /\ pc = "PromptRadius"
    /\ event' = [op |-> "InputRadius", text |-> str]
    /\ LET v == ParseFloat(str)
       IN  IF v = ValueError
           THEN MainRaises("ValueError", <<>>)
                /\ UNCHANGED <<radius, angle, properties, ascii_circle, draw_radius>>
           ELSE IF RadiusInvalid(v)
           THEN MainRaises("ValueError", <<>>)
                /\ radius' = v
                /\ UNCHANGED <<angle, properties, ascii_circle, draw_radius>>
           ELSE /\ radius' = v
                /\ pc' = "PromptAngle"
                /\ raised' = "none"
                /\ out' = <<>>
                /\ UNCHANGED <<angle, properties, ascii_circle, draw_radius, result>>

\* the user answers the angle prompt; main then computes, reports, draws
\* and enters visualize_circle
InputAngle(str) ==
    /\ pc = "PromptAngle"
    /\ event' = [op |-> "InputAngle", text |-> str]
    /\ UNCHANGED radius
    /\ LET v == ParseFloat(AngleText(str))
           i == ToInt(radius)
       IN  IF v = ValueError
           THEN MainRaises("ValueError", <<>>)
                /\ UNCHANGED <<angle, properties, ascii_circle, draw_radius>>
           ELSE IF AngleInvalid(v)
           THEN MainRaises("ValueError", <<>>)
                /\ angle' = v
                /\ UNCHANGED <<properties, ascii_circle, draw_radius>>
           ELSE IF i.exc # "none"
           THEN MainRaises(i.exc, <<"report">>)
                /\ angle' = v
                /\ properties' = calculate_circle_properties(radius, v)
                /\ UNCHANGED <<ascii_circle, draw_radius>>
           ELSE /\ angle' = v
                /\ properties' = calculate_circle_properties(radius, v)
                /\ draw_radius' = <<i.v>>
                /\ ascii_circle' = draw_circle_ascii(i.v, TRUE)
                /\ pc' = "Visualizing"
                /\ raised' = "none"
                /\ out' = <<"report", "drawing parameters">>
                /\ UNCHANGED result

\* Ctrl-C while main waits for input or for the plot window
MainInterrupt ==
    /\ pc \in {"PromptRadius", "PromptAngle", "Visualizing"}
    /\ event' = [op |-> "MainInterrupt", text |-> <<>>]
    /\ MainRaises("KeyboardInterrupt", <<>>)
    /\ UNCHANGED <<radius, angle, properties, ascii_circle, draw_radius>>

\* end of input while main waits at a prompt
MainEOF ==
    /\ pc \in {"PromptRadius", "PromptAngle"}
    /\ event' = [op |-> "MainEOF", text |-> <<>>]
    /\ MainRaises("EOFError", <<>>)
    /\ UNCHANGED <<radius, angle, properties, ascii_circle, draw_radius>>

\* visualize_circle fails
VisualizeRaises ==
    /\ pc = "Visualizing"
    /\ event' = [op |-> "VisualizeRaises", text |-> <<>>]
    /\ MainRaises("RuntimeError", <<>>)
    /\ UNCHANGED <<radius, angle, properties, ascii_circle, draw_radius>>

\* the plot window is closed: main prints the drawing and returns True
VisualizeReturns ==
    /\ pc = "Visualizing"
    /\ event' = [op |-> "VisualizeReturns", text |-> <<>>]
    /\ pc' = AfterMain(TRUE)
    /\ result' = <<TRUE>>
    /\ raised' = "none"
    /\ out' = <<"ascii_circle", "separator">>
    /\ UNCHANGED <<radius, angle, properties, ascii_circle, draw_radius>>

\* the user answers the retry prompt
RetryInput(str) ==
    /\ pc = "AskRetry"
    /\ event' = [op |-> "RetryInput", text |-> str]
    /\ raised' = "none"
    /\ LET choice == Lower(str)
       IN  IF choice \in {<<"y">>, <<"y", "e", "s">>}
           THEN /\ pc' = "PromptRadius"
                /\ out' = <<"separator">>
                /\ radius' = NoneVal
                /\ angle' = NoneVal
                /\ properties' = NoProps
                /\ ascii_circle' = <<>>
                /\ draw_radius' = <<>>
                /\ UNCHANGED result
           ELSE IF choice \in {<<"n">>, <<"n", "o">>}
           THEN /\ pc' = "Terminated"
                /\ out' = <<"separator", "Thank you for using the Circle Calculator. Goodbye!">>
                /\ UNCHANGED <<radius, angle, properties, ascii_circle, draw_radius, result>>
           ELSE /\ pc' = "AskRetry"
                /\ out' = <<"Invalid input. Please enter 'y' or 'n'.">>
                /\ UNCHANGED <<radius, angle, properties, ascii_circle, draw_radius, result>>

\* Ctrl-C at the retry prompt
RetryInterrupt ==
    /\ pc = "AskRetry"
    /\ event' = [op |-> "RetryInterrupt", text |-> <<>>]
    /\ raised' = "KeyboardInterrupt"
    /\ pc' = "Terminated"
    /\ out' = <<"separator", "Program terminated by user. Goodbye!">>
    /\ UNCHANGED <<radius, angle, properties, ascii_circle, draw_radius, result>>

\* end of input at the retry prompt: no clause catches EOFError there
RetryEOF ==
    /\ pc = "AskRetry"
    /\ event' = [op |-> "RetryEOF", text |-> <<>>]
    /\ raised' = "EOFError"
    /\ pc' = "Crashed"
    /\ out' = <<"Traceback">>
    /\ UNCHANGED <<radius, angle, properties, ascii_circle, draw_radius, result>>

----------------------------------------------------------------------------
\* Direct calls of the two functions

CallCalculate(r, a) ==
    /\ pc = "Imported"
    /\ event' = [op |-> "CallCalculate", text |-> <<>>]
    /\ properties' = calculate_circle_properties(r, a)
    /\ UNCHANGED <<pc, radius, angle, ascii_circle, draw_radius, result, raised, out>>

\* calculate_circle_properties(r): angle_degrees takes its default
CallCalculateDefault(r) ==
    /\ pc = "Imported"
    /\ event' = [op |-> "CallCalculateDefault", text |-> <<>>]
    /\ properties' = calculate_circle_properties(r, Num(DefaultAngleDegrees))
    /\ UNCHANGED <<pc, radius, angle, ascii_circle, draw_radius, result, raised, out>>

CallDraw(r, show_calculation) ==
    /\ pc = "Imported"
    /\ event' = [op |-> "CallDraw", text |-> <<>>]
    /\ draw_radius' = <<r>>
    /\ ascii_circle' = draw_circle_ascii(r, show_calculation)
    /\ out' = IF show_calculation THEN <<"drawing parameters">> ELSE <<>>
    /\ UNCHANGED <<pc, radius, angle, properties, result, raised>>

Next ==
    \/ \E str \in RadiusInputs : InputRadius(str)
    \/ \E str \in AngleInputs : InputAngle(str)
    \/ MainInterrupt
    \/ MainEOF
    \/ VisualizeRaises
    \/ VisualizeReturns
    \/ \E str \in RetryInputs : RetryInput(str)
    \/ RetryInterrupt
    \/ RetryEOF
    \/ \E r \in DirectRadii, a \in DirectAngles : CallCalculate(r, a)
    \/ \E r \in DirectRadii : CallCalculateDefault(r)
    \/ \E r \in (-MaxRadius)..MaxRadius, b \in BOOLEAN : CallDraw(r, b)

Spec == Init /\ [][Next]_vars

----------------------------------------------------------------------------
\* Properties

RECURSIVE SplitLines(_)
\* str.split("\n")
SplitLines(str) ==
    LET nl == {i \in 1..Len(str) : str[i] = "\n"}
    IN  IF nl = {} THEN <<str>>
        ELSE LET i == CHOOSE j \in nl : \A m \in nl : j <= m
             IN  <<SubSeq(str, 1, i - 1)>> \o SplitLines(SubSeq(str, i + 1, Len(str)))

\* v is the finite number (n/d) * pi^p
IsNumber(v, n, d, p) == v.k = "fin" /\ v.p = p /\ v.n * d = n * v.d

\* a step in which calculate_circle_properties was called
Calculated ==
    \/ event.op \in {"CallCalculate", "CallCalculateDefault"}
    \/ event.op = "InputAngle" /\ properties # NoProps

\* a step in which the session called draw_circle_ascii
SessionDrew == event.op = "InputAngle" /\ draw_radius # <<>>

\* the character at column x of row y in the drawing of radius r
Cell(x, y, r) == SplitLines(ascii_circle)[y + r + 1][x + 2 * r + 1]

\* the columns of row y that hold a star
Filled(y, r) == {x \in (-2 * r)..(2 * r) : Cell(x, y, r) = "*"}

\* C1 (as stated): calculate_circle_properties itself raises, and returns no
\* record, whenever radius <= 0 or angle_degrees <= 0 or angle_degrees > 360.
C1_EngineRejects ==
    (/\ event.op \in {"CallCalculate", "CallCalculateDefault"}
     /\ \/ properties.radius.n <= 0
        \/ properties.angle_degrees.n <= 0
        \/ properties.angle_degrees.n > 360 * properties.angle_degrees.d)
    => raised = "ValueError"

\* C1 (amended): the rejection is made by main, not by the function.  A
\* radius <= 0 typed at the radius prompt, and an angle <= 0 or > 360 typed
\* at the angle prompt, each raise ValueError in main, which reports it and
\* goes to the retry prompt without calling calculate_circle_properties;
\* a direct call returns a record whatever its numeric arguments are.
C1_MainRejects ==
    /\ (event.op = "InputRadius" /\ radius.k \in {"fin", "inf"} /\ radius.n <= 0)
       => (raised = "ValueError" /\ pc = "AskRetry" /\ properties = NoProps
           /\ out[1] = "Error")
    /\ (/\ event.op = "InputAngle"
        /\ \/ angle.k = "fin" /\ (angle.n <= 0 \/ angle.n > 360 * angle.d)
           \/ angle.k = "inf")
       => (raised = "ValueError" /\ pc = "AskRetry" /\ properties = NoProps
           /\ out[1] = "Error")
    /\ event.op \in {"CallCalculate", "CallCalculateDefault"}
       => (raised = "none" /\ properties.radius.k = "fin")

C1_Witness ==
    /\ event = [op |-> "InputRadius", text |-> <<"0">>]
    /\ raised = "ValueError"
    /\ pc = "AskRetry"

\* C2: for a finite radius r > 0 and an angle 0 < a <= 360 the record
\* carries r and a, diameter = 2r, circumference = 2 pi r, area = pi r^2,
\* sector_area * 360 = a * area and arc_length * 360 = a * circumference;
\* for a = 360 the sector is the circle and the arc the circumference.
C2_Properties ==
    LET r == properties.radius
        a == properties.angle_degrees
    IN  (/\ Calculated
         /\ r.k = "fin" /\ r.p = 0 /\ r.n > 0
         /\ a.k = "fin" /\ a.p = 0 /\ a.n > 0 /\ a.n <= 360 * a.d)
        => /\ IsNumber(properties.diameter, 2 * r.n, r.d, 0)
           /\ IsNumber(properties.circumference, 2 * r.n, r.d, 1)
           /\ IsNumber(properties.area, r.n * r.n, r.d * r.d, 1)
           /\ IsNumber(properties.sector_area,
                       a.n * properties.area.n, 360 * a.d * properties.area.d, 1)
           /\ IsNumber(properties.arc_length,
                       a.n * properties.circumference.n,
                       360 * a.d * properties.circumference.d, 1)
           /\ a = Num(360) => /\ properties.sector_area = properties.area
                              /\ properties.arc_length = properties.circumference

C2_Witness ==
    /\ event.op = "CallCalculate"
    /\ properties.radius = Fin(5, 2, 0)
    /\ properties.angle_degrees = Num(90)
    /\ properties.sector_area = Fin(25, 16, 1)
    /\ properties.arc_length = Fin(5, 4, 1)

\* C3: for a radius r > 0 the drawing has 2r+1 rows of 4r+1 characters, and
\* the character at (x, y) is a star when (2r-1)^2 < x^2 + 4y^2 < (2r+1)^2
\* and a blank otherwise.
C3_Band ==
    \A r \in 1..(MaxRadius + 1) :
        draw_radius = <<r>> =>
            /\ Len(SplitLines(ascii_circle)) = 2 * r + 1
            /\ \A y \in (-r)..r :
                /\ Len(SplitLines(ascii_circle)[y + r + 1]) = 4 * r + 1
                /\ \A x \in (-2 * r)..(2 * r) :
                    Cell(x, y, r) =
                        IF /\ (2 * r - 1) * (2 * r - 1) < x * x + 4 * y * y
                           /\ x * x + 4 * y * y < (2 * r + 1) * (2 * r + 1)
                        THEN "*" ELSE " "

C3_Witness ==
    /\ event.op = "CallDraw"
    /\ draw_radius = <<2>>
    /\ Cell(0, 0, 2) = " "
    /\ Cell(4, 0, 2) = "*"
    /\ Cell(3, 2, 2) = " "

\* C4 (as stated): the drawing of radius 3 has 7 rows of 13 characters, and
\* in row y = 0 the filled cells are x in {5, 6, 7} and x in {-7, -6, -5}.
C4_Original ==
    draw_radius = <<3>> =>
        /\ Len(SplitLines(ascii_circle)) = 7
        /\ \A j \in 1..7 : Len(SplitLines(ascii_circle)[j]) = 13
        /\ \A x \in {-7, -6, -5, 5, 6, 7} :
            /\ x + 7 \in 1..Len(SplitLines(ascii_circle)[4])
            /\ SplitLines(ascii_circle)[4][x + 7] = "*"

\* C4 (amended): the drawing of radius 3 has 7 rows of 13 characters, and in
\* row y = 0 the filled cells are exactly x = 6 and x = -6.
C4_Radius3 ==
    draw_radius = <<3>> =>
        /\ Len(SplitLines(ascii_circle)) = 7
        /\ \A j \in 1..7 : Len(SplitLines(ascii_circle)[j]) = 13
        /\ Filled(0, 3) = {-6, 6}

C4_Witness ==
    /\ pc = "Visualizing"
    /\ radius = Num(3)
    /\ draw_radius = <<3>>
    /\ SplitLines(ascii_circle)[4][1] = "*"

\* C5: for a radius r > 0 the cell at (x, y) is filled exactly when the
\* cell at (-x, y) is, and exactly when the cell at (x, -y) is.
C5_Symmetric ==
    \A r \in 1..(MaxRadius + 1) :
        draw_radius = <<r>> =>
            /\ Len(SplitLines(ascii_circle)) = 2 * r + 1
            /\ \A y \in (-r)..r :
                /\ Len(SplitLines(ascii_circle)[y + r + 1]) = 4 * r + 1
                /\ \A x \in (-2 * r)..(2 * r) :
                    /\ Cell(x, y, r) = Cell(-x, y, r)
                    /\ Cell(x, y, r) = Cell(x, -y, r)

C5_Witness ==
    /\ event.op = "CallDraw"
    /\ draw_radius = <<MaxRadius>>
    /\ Filled(-MaxRadius, MaxRadius) # {}
    /\ Filled(-MaxRadius, MaxRadius) = Filled(MaxRadius, MaxRadius)

\* C6 (as stated): draw_circle_ascii rejects every radius <= 0 and produces
\* no drawing for it.
C6_RasterizerRejects ==
    (event.op = "CallDraw" /\ draw_radius[1] <= 0)
    => (raised # "none" /\ ascii_circle = <<>>)

\* C7 (as stated): an omitted angle is 360, both in a direct call without
\* angle and when the angle prompt is left empty.
C7_Original ==
    /\ event.op = "CallCalculateDefault" => properties.angle_degrees = Num(360)
    /\ (event = [op |-> "InputAngle", text |-> <<>>] /\ properties # NoProps)
       => properties.angle_degrees = Num(360)

\* C7 (amended): a direct call without angle uses angle_degrees = 360; an
\* attempt in which the angle prompt is left empty computes and reports the
\* properties with angle_degrees = 40.
C7_Defaults ==
    /\ event.op = "CallCalculateDefault" => properties.angle_degrees = Num(360)
    /\ event = [op |-> "InputAngle", text |-> <<>>]
       => (angle = Num(40) /\ properties.angle_degrees = Num(40))

C7_Witness ==
    /\ event = [op |-> "InputAngle", text |-> <<>>]
    /\ pc = "Visualizing"
    /\ properties.radius = Num(1)
    /\ properties.sector_area = Fin(1, 9, 1)

\* C8 (as stated): a KeyboardInterrupt, wherever it is raised, prints a
\* farewell and takes the session to Terminated with no further prompt.
C8_InterruptTerminates ==
    raised = "KeyboardInterrupt"
    => (pc = "Terminated" /\ out[Len(out)] = "Program terminated by user. Goodbye!")

\* C9: an error other than a user interrupt raised inside an attempt is
\* caught by main, which prints a message; the session is then at the retry
\* prompt.  The session ends only from the retry prompt; there y or yes
\* starts a new attempt and n or no terminates.
C9_ErrorsAreRecovered ==
    /\ (/\ event.op \in {"InputRadius", "InputAngle", "MainEOF", "VisualizeRaises"}
        /\ raised \notin {"none", "KeyboardInterrupt"})
       => /\ pc = "AskRetry"
          /\ result = <<TRUE>>
          /\ out[Len(out) - 1] = IF raised = "ValueError" THEN "Error"
                                 ELSE "An unexpected error occurred"
    /\ event.op \in {"MainEOF", "VisualizeRaises"} => raised # "none"
    /\ (event.op = "InputRadius" /\ event.text \in {<<"a", "b", "c">>, <<>>})
       => raised = "ValueError"
    /\ (event.op = "InputAngle" /\ event.text \in {<<"x">>, <<" ">>})
       => raised = "ValueError"
    /\ pc \in {"Terminated", "Crashed"}
       => event.op \in {"RetryInput", "RetryInterrupt", "RetryEOF"}
    /\ (event.op = "RetryInput" /\ event.text \in {<<"y">>, <<"y", "e", "s">>})
       => pc = "PromptRadius"
    /\ (event.op = "RetryInput" /\ event.text \in {<<"n">>, <<"n", "o">>})
       => pc = "Terminated"

C9_Witness ==
    /\ event.op = "VisualizeRaises"
    /\ raised = "RuntimeError"
    /\ pc = "AskRetry"
    /\ out = <<"An unexpected error occurred", "separator">>

\* C10 (as stated): whenever the session reaches the drawing step, the
\* radius it passes to draw_circle_ascii is an integer >= 1.
C10_DrawRadiusPositive ==
    SessionDrew => draw_radius[1] >= 1

====
